---- MODULE Spec2Model ----
(***************************************************************************)
(* A model of cnnscore.py: the k-fold cross-validation driver.             *)
(*                                                                         *)
(* Text is modelled at the granularity the code works at.  A path is a     *)
(* sequence of tokens in which the separators "/", "." and "_" are tokens  *)
(* of their own and every other token is a maximal run of other            *)
(* characters, so two paths are the same string exactly when they are the  *)
(* same token sequence.  A data file is the list of its lines, each line   *)
(* the list of its whitespace-separated fields (what read_lines_from_file  *)
(* returns).                                                               *)
(***************************************************************************)
EXTENDS Integers, Sequences, FiniteSets, TLC

VARIABLES task, pc, args, disk, crossval_files, test_files, trainer,
          fold, snap, score_data, net, all_score_data, plots, parts, err

vars == <<task, pc, args, disk, crossval_files, test_files, trainer,
          fold, snap, score_data, net, all_score_data, plots, parts, err>>

-----------------------------------------------------------------------------
(* Bounds of the model *)

MaxRows == 3
MaxBatch == 2
MaxK == 3
MaxLayers == 3
MaxIter == 2

-----------------------------------------------------------------------------
(* Generic sequence helpers *)

Range(s) == {s[x] : x \in DOMAIN s}

RECURSIVE Concat(_)
Concat(ss) == IF ss = <<>> THEN <<>> ELSE Head(ss) \o Concat(Tail(ss))

Perms(n) == {f \in [1..n -> 1..n] : \A a, b \in 1..n : f[a] = f[b] => a = b}

Permute(s, f) == [x \in 1..Len(s) |-> s[f[x]]]

SeqsUpTo(S, lo, hi) == UNION {[1..m -> S] : m \in lo..hi}

Count(s, v) == Cardinality({x \in DOMAIN s : s[x] = v})

-----------------------------------------------------------------------------
(* os.path and str methods on token sequences *)

LastIndexOf(p, tok) ==
    LET hits == {x \in DOMAIN p : p[x] = tok}
    IN IF hits = {} THEN 0 ELSE CHOOSE x \in hits : \A y \in hits : y <= x

FirstIndexOf(p, tok) ==
    LET hits == {x \in DOMAIN p : p[x] = tok}
    IN IF hits = {} THEN 0 ELSE CHOOSE x \in hits : \A y \in hits : x <= y

RECURSIVE RStrip(_, _)
RStrip(p, tok) ==
    IF p # <<>> /\ p[Len(p)] = tok THEN RStrip(SubSeq(p, 1, Len(p) - 1), tok) ELSE p

os_path_dirname(p) ==
    LET cut == LastIndexOf(p, "/")
        head == SubSeq(p, 1, cut)
    IN IF head # <<>> /\ Range(head) # {"/"} THEN RStrip(head, "/") ELSE head

os_path_basename(p) == SubSeq(p, LastIndexOf(p, "/") + 1, Len(p))

os_path_splitext(p) ==
    LET sepIndex == LastIndexOf(p, "/")
        dotIndex == LastIndexOf(p, ".")
    IN IF dotIndex > sepIndex
          /\ \E x \in (sepIndex + 1)..(dotIndex - 1) : p[x] # "."
       THEN <<SubSeq(p, 1, dotIndex - 1), SubSeq(p, dotIndex, Len(p))>>
       ELSE <<p, <<>> >>

os_path_join(a, b) ==
    IF b # <<>> /\ b[1] = "/" THEN b
    ELSE IF a = <<>> \/ a[Len(a)] = "/" THEN a \o b
    ELSE a \o <<"/">> \o b

\* s.split('.')[0]
SplitDotFirst(p) ==
    LET d == FirstIndexOf(p, ".")
    IN IF d = 0 THEN p ELSE SubSeq(p, 1, d - 1)

\* '_'.join(items), each item a token sequence
RECURSIVE UnderscoreJoin(_)
UnderscoreJoin(items) ==
    IF items = <<>> THEN <<>>
    ELSE IF Len(items) = 1 THEN items[1]
    ELSE items[1] \o <<"_">> \o UnderscoreJoin(Tail(items))

\* s.replace(old, new) for a one-token old
StrReplace(p, old, new) == [x \in DOMAIN p |-> IF p[x] = old THEN new ELSE p[x]]

\* str(n) and int(s) for the integers that occur
str(n) == ToString(n)

PyInt(tok) ==
    IF tok = "01" THEN 1 ELSE CHOOSE n \in 0..9 : ToString(n) = tok

-----------------------------------------------------------------------------
(* Reading data files *)

Min(a, b) == IF a <= b THEN a ELSE b

ApplyType(f, x) == IF f = "int" THEN PyInt(x) ELSE x

\* zip(funcs, fields) stops at the shorter of the two
apply_to_fields(data, funcs) ==
    [r \in DOMAIN data |->
        [c \in 1..Min(Len(funcs), Len(data[r])) |-> ApplyType(funcs[c], data[r][c])]]

\* index is the 0-based field index of the code
group_by_index(data, index) ==
    LET groups == {data[r][index + 1] : r \in DOMAIN data}
        rest(fields) == SubSeq(fields, 1, index) \o SubSeq(fields, index + 2, Len(fields))
        rowsOf(g) == SelectSeq(data, LAMBDA fields : fields[index + 1] = g)
    IN [g \in groups |-> [x \in 1..Len(rowsOf(g)) |-> rest(rowsOf(g)[x])]]

read_data_to_target_dict(lines, types, index) ==
    group_by_index(apply_to_fields(lines, types), index)

\* zip(*data): as many columns as the shortest row has fields
transpose(data) ==
    LET width == CHOOSE w \in 0..8 :
                    /\ \A r \in DOMAIN data : w <= Len(data[r])
                    /\ \E r \in DOMAIN data : w = Len(data[r])
    IN [c \in 1..width |-> [r \in DOMAIN data |-> data[r][c]]]

\* fields = ['labels', 'targets', 'examples']
read_data_to_field_dict(lines, types) ==
    LET cols == transpose(apply_to_fields(lines, types))
    IN [labels |-> cols[1], targets |-> cols[2], examples |-> cols[3]]

-----------------------------------------------------------------------------
(* k-fold partitioning *)

\* every order np.random.shuffle can leave the elements of S in
Shuffles(S) ==
    {s \in [1..Cardinality(S) -> S] : \A a, b \in DOMAIN s : s[a] = s[b] => a = b}

SomeOrder(S) == CHOOSE s \in Shuffles(S) : TRUE

\* i//k in place of i%k
PartIndexBlock(i, k) == i \div k

\* the code's 0-based bucket i%k of the 0-based position i
PartIndex(i, k) == i % k

\* targets is the shuffled list of keys; parts[q] collects positions i with i%k = q-1
k_fold_partitions(targets, k) ==
    [q \in 1..k |->
        LET idx == {x \in DOMAIN targets : PartIndex(x - 1, k) = q - 1}
            nth(m) == CHOOSE x \in idx : Cardinality({y \in idx : y < x}) = m - 1
        IN [m \in 1..Cardinality(idx) |-> targets[nth(m)]]]

\* the lines write_target_data_to_file builds before shuffling them
TargetLines(data, targets) ==
    Concat([t \in DOMAIN targets |->
              [e \in DOMAIN data[targets[t]] |->
                  <<str(data[targets[t]][e][1]), targets[t], data[targets[t]][e][2]>>]])

\* what reading '\n'.join(lines) + '\n' back gives: no line at all is one blank line
WrittenLines(lines) == IF lines = <<>> THEN << <<>> >> ELSE lines

DataFile(lines) == [kind |-> "data", lines |-> lines]

\* the train or test file of part p+1 (p the 0-based position of the part)
KFoldDataFile(full_data_file, p, which) ==
    LET data_dir == os_path_dirname(full_data_file)
        se == os_path_splitext(os_path_basename(full_data_file))
        part_param == <<"part" \o str(p + 1)>>
    IN os_path_join(data_dir, UnderscoreJoin(<<se[1], part_param, <<which>> >>) \o se[2])

-----------------------------------------------------------------------------
(* Model and solver configuration files *)

Layer(name, batch_size) ==
    [name |-> name, source |-> <<>>, root_folder |-> <<>>,
     shuffle |-> TRUE, balanced |-> TRUE, batch_size |-> batch_size]

\* a model prototype with the given layer names; the data layer is the first
Prototype(names, batch_size) == [x \in DOMAIN names |-> Layer(names[x], batch_size)]

RemoveAt(s, x) == SubSeq(s, 1, x - 1) \o SubSeq(s, x + 1, Len(s))

\* for i, layer in enumerate(layers): if layer.name == name: del layers[i]
\* x is the 1-based position the iterator is at; it moves on after a deletion
RECURSIVE DeleteWhileIterating(_, _, _)
DeleteWhileIterating(layers, x, name) ==
    IF x > Len(layers) THEN layers
    ELSE IF layers[x].name = name
         THEN DeleteWhileIterating(RemoveAt(layers, x), x + 1, name)
         ELSE DeleteWhileIterating(layers, x + 1, name)

\* model = NetParameter(); model.CopyFrom(model_prototype): a message of its own
CopyFrom(model_prototype) == [copy |-> model_prototype, original |-> model_prototype]

\* write_model_prototxt: the NetParameter it writes to model_file, and the
\* prototype message as the call leaves it
write_model_prototxt(model_prototype, data_file, binmap_root, mode) ==
    LET model == CopyFrom(model_prototype)
        sourced == [model.copy EXCEPT ![1].source = data_file,
                                      ![1].root_folder = binmap_root]
    IN [prototype |-> model.original,
        written |->
          IF mode = "train" THEN DeleteWhileIterating(sourced, 1, "pred")
          ELSE IF mode = "test"
          THEN DeleteWhileIterating(
                   [sourced EXCEPT ![1].shuffle = FALSE, ![1].balanced = FALSE], 1, "loss")
          ELSE sourced]

ModelFile(layers) == [kind |-> "model", layers |-> layers]

TrainModelSuffix == <<"_", "train", ".", "model", ".", "prototxt">>

\* model_file.replace('_train.model.prototxt', ''), for a suffix at the end
StripTrainSuffix(model_file) ==
    LET n == Len(model_file) - Len(TrainModelSuffix)
    IN IF n >= 0 /\ SubSeq(model_file, n + 1, Len(model_file)) = TrainModelSuffix
       THEN SubSeq(model_file, 1, n) ELSE model_file

write_solver_prototxt(solver_prototype, model_file) ==
    [kind |-> "solver", max_iter |-> solver_prototype.max_iter,
     snapshot |-> solver_prototype.snapshot, train_net |-> model_file,
     snapshot_prefix |-> StripTrainSuffix(model_file)]

\* range(snap_iter, max_iter+1, snap_iter), snap_iter >= 1
SnapshotIters(snap_iter, max_iter) == [m \in 1..(max_iter \div snap_iter) |-> m * snap_iter]

IterParam(j) == <<"iter", "_", str(j)>>

\* the train or test data file of fold i (0 = the full data)
CrossvalDataFile(full_data_file, i, which) ==
    IF i = 0 THEN full_data_file
    ELSE LET data_dir == os_path_dirname(full_data_file)
             se == os_path_splitext(os_path_basename(full_data_file))
             part_param == <<"part" \o str(i)>>
         IN os_path_join(data_dir,
                         UnderscoreJoin(<<se[1], part_param, <<which>> >>) \o se[2])

PartParam(i) == IF i = 0 THEN <<"full">> ELSE <<"part" \o str(i)>>

\* the name without the part
SnapshotFileNoPart(output_dir, model_param, i, j, ext) ==
    os_path_join(output_dir,
                 UnderscoreJoin(<<model_param, IterParam(j)>>) \o <<".", ext>>)

\* the weight (ext = "caffemodel") or score (ext = "scores") file of fold i, iteration j
SnapshotFile(output_dir, model_param, i, j, ext) ==
    os_path_join(output_dir,
                 UnderscoreJoin(<<model_param, PartParam(i), IterParam(j)>>) \o <<".", ext>>)

\* the dictionary generate_crossval_files returns (folds are 1-based here: entry
\* i+1 is the code's entry i)
generate_crossval_files(output_dir, full_data_file, model_prototype_file, solver_prototype_file, solver_prototype, k) ==
    LET model_param == SplitDotFirst(os_path_basename(model_prototype_file))
        solver_param == SplitDotFirst(os_path_basename(solver_prototype_file))
        max_iter == solver_prototype.max_iter
        snap_iter == IF solver_prototype.snapshot = 0 THEN max_iter
                     ELSE solver_prototype.snapshot
        iters == SnapshotIters(snap_iter, max_iter)
        folds == 1..(k + 1)
        named(param, i, tail) ==
            os_path_join(output_dir, UnderscoreJoin(<<param, PartParam(i)>> \o tail))
        plot(tail) ==
            os_path_join(output_dir, UnderscoreJoin(<<model_param>> \o tail)
                                         \o <<".", "roc", ".", "png">>)
    IN [train_data |-> [f \in folds |-> CrossvalDataFile(full_data_file, f - 1, "train")],
        test_data |-> [f \in folds |-> CrossvalDataFile(full_data_file, f - 1, "test")],
        train_models |-> [f \in folds |->
            named(model_param, f - 1, << <<"train">> >>) \o <<".", "model", ".", "prototxt">>],
        test_models |-> [f \in folds |->
            named(model_param, f - 1, << <<"test">> >>) \o <<".", "model", ".", "prototxt">>],
        solvers |-> [f \in folds |->
            named(solver_param, f - 1, <<>>) \o <<".", "solver", ".", "prototxt">>],
        weights |-> [f \in folds |-> [m \in DOMAIN iters |->
            SnapshotFile(output_dir, model_param, f - 1, iters[m], "caffemodel")]],
        scores |-> [f \in folds |-> [m \in DOMAIN iters |->
            SnapshotFile(output_dir, model_param, f - 1, iters[m], "scores")]],
        roc_plots |-> [by_iter |-> [m \in DOMAIN iters |-> plot(<<IterParam(iters[m])>>)],
                       testontrain |-> plot(<< <<"testontrain">> >>),
                       crossval |-> plot(<< <<"crossval">> >>)],
        line_plot |-> os_path_join(output_dir, model_param \o <<".", "line", ".", "png">>)]

-----------------------------------------------------------------------------
(* Inference *)

\* the tokens of a path run together into one string
RECURSIVE PathStr(_)
PathStr(p) == IF p = <<>> THEN "" ELSE Head(p) \o PathStr(Tail(p))

\* A float32 blob value is kept in halves, so int() has something to truncate.
FloatOf(n) == 2 * n

int(x) == x \div 2

\* The class-1 probability the network with these weights gives an example: a
\* value that names the weights and the example it was computed from.
Pred(weight_file, target, example) ==
    "p(" \o PathStr(weight_file) \o "," \o target \o "/" \o example \o ")"

\* What model.forward() returns over num_batches passes, slot by slot (0-based):
\* the data layer walks the lines of its source in the given order, and starts
\* over when it reaches the end.
NetForward(net_lines, order, weight_file, batch_size, num_batches) ==
    [slot \in 0..(num_batches * batch_size - 1) |->
        LET row == net_lines[order[(slot % Len(net_lines)) + 1]]
        IN [label |-> FloatOf(PyInt(row[1])),
            pred |-> <<"-", Pred(weight_file, row[2], row[3])>>]]

\* the number of whole batches, without the pass for the remainder
NumBatchesFloor(num_examples, batch_size) == num_examples \div batch_size

NumBatches(num_examples, batch_size) == (num_examples \div batch_size) + 1

\* a comparison of truth values in place of the labels
LabelMismatchTruth(file_label, output_label) ==
    (file_label = 0) # (int(output_label) = 0)

LabelMismatch(file_label, output_label) == file_label # int(output_label)

\* The loops of get_model_predictions from batch i, slot j on (both 0-based).
\* r carries data['scores'], the number of forward passes made and the data
\* indices whose label was compared.
RECURSIVE PredictLoop(_, _, _, _, _, _)
PredictLoop(data, batch_size, output, i, j, r) ==
    LET num_examples == Len(data.examples)
        data_index == i * batch_size + j
        fwd == IF j = 0 THEN [r EXCEPT !.forwards = @ + 1] ELSE r
    IN IF i >= NumBatches(num_examples, batch_size) THEN r
       ELSE IF j >= batch_size \/ data_index >= num_examples
            THEN PredictLoop(data, batch_size, output, i + 1, 0, fwd)
       ELSE IF LabelMismatch(data.labels[data_index + 1], output[data_index].label)
            THEN [fwd EXCEPT !.raised = TRUE, !.checked = @ \cup {data_index}]
       ELSE PredictLoop(data, batch_size, output, i, j + 1,
                        [fwd EXCEPT !.scores = Append(@, output[data_index].pred[2]),
                                    !.checked = @ \cup {data_index}])

\* get_model_predictions, given the lines of data_file, the model file's content,
\* the lines of the model's data source and the order the network reads them in
get_model_predictions(lines, model, weight_file, net_lines, order) ==
    LET data == read_data_to_field_dict(lines, <<"int", "str", "str">>)
        batch_size == model.layers[1].batch_size
        num_batches == NumBatches(Len(data.examples), batch_size)
        output == NetForward(net_lines, order, weight_file, batch_size, num_batches)
        r == PredictLoop(data, batch_size, output, 0, 0,
                         [raised |-> FALSE, scores |-> <<>>, forwards |-> 0, checked |-> {}])
    IN [raised |-> r.raised, forwards |-> r.forwards, checked |-> r.checked,
        data |-> [labels |-> data.labels, targets |-> data.targets,
                  examples |-> data.examples, scores |-> r.scores]]

\* the label of the first row on every line
write_scores_first_label(results) ==
    [kind |-> "scores",
     lines |-> [x \in DOMAIN results.examples |->
                  <<str(results.labels[1]), results.targets[x],
                    results.examples[x], results.scores[x]>>]]

\* the lines write_scores_to_file writes, as read_lines_from_file reads them back
write_scores_to_file(results) ==
    [kind |-> "scores",
     lines |-> [x \in DOMAIN results.examples |->
                  <<str(results.labels[x]), results.targets[x],
                    results.examples[x], results.scores[x]>>]]

-----------------------------------------------------------------------------
(* Program constants *)

\* k = 3 in crossval_model
K == 3

DEFAULT_BINMAP_ROOT == <<"/", "scr", "/", "CSAR", "/">>

DEFAULT_OUTPUT_DIR == <<".", "/">>

Null == <<>>

\* x or default: None and the empty string both give the default
Or(x, default) == IF x = <<>> THEN default ELSE x

-----------------------------------------------------------------------------
(* Inputs *)

LayerNames == {"data", "ip", "pred", "loss"}

\* labelled examples of one target, for the inference tasks
ScoreRows == {<<"0", "t1", "e1">>, <<"1", "t1", "e1">>, <<"1", "t1", "e2">>, <<"2", "t1", "e2">>}

\* labelled examples of three targets, for the partitioning task
TargetRows ==
    << <<"1", "t1", "e1">>, <<"0", "t1", "e2">>, <<"0", "t2", "e1">>, <<"01", "t3", "e2">> >>

\* the full data files of at most MaxRows lines, each example listed once.  The
\* lines are grouped by target and every file written is shuffled, so the order
\* of the lines of the full data file is lost: the files are taken up to that
\* order.
FullDataFiles ==
    LET ordered(m) == {f \in [1..m -> DOMAIN TargetRows] :
                          \A x \in 1..(m - 1) : f[x] < f[x + 1]}
    IN UNION {{[x \in 1..m |-> TargetRows[f[x]]] : f \in ordered(m)} : m \in 1..MaxRows}

\* the test data a cross-validation run finds for a fold
FoldData == { << <<"1", "t1", "e1">>, <<"1", "t1", "e2">> >>,
              << <<"0", "t1", "e1">>, <<"1", "t1", "e2">> >> }

CrossvalInvocations ==
    { [o |-> <<>>, b |-> <<>>, data_file |-> <<"d", "/", "all", ".", "types">>,
       model_file |-> <<"net", ".", "model", ".", "prototxt">>,
       solver_file |-> <<"sgd", ".", "solver", ".", "prototxt">>,
       prototype |-> Prototype(<<"data", "ip", "pred", "loss">>, 1)],
      [o |-> <<"out">>, b |-> <<"/", "maps">>, data_file |-> <<"all">>,
       model_file |-> <<"m", "/", "iter", "_", "1", ".", "prototxt">>,
       solver_file |-> <<"m", "/", "iter", "_", "1", ".", "solver">>,
       prototype |-> Prototype(<<"data", "loss", "loss", "pred">>, 2)] }

GenerateInvocations ==
    { [output_dir |-> <<".", "/">>, data_file |-> <<"d", "/", "all", ".", "types">>,
       model_file |-> <<"net", ".", "model", ".", "prototxt">>,
       solver_file |-> <<"sgd", ".", "solver", ".", "prototxt">>],
      [output_dir |-> <<"out">>, data_file |-> <<"all">>,
       model_file |-> <<"m", "/", "iter", "_", "1", ".", "prototxt">>,
       solver_file |-> <<"iter", "_", "1">>],
      [output_dir |-> <<"d", ".", "x">>, data_file |-> <<"d", ".", "x", "/", "all">>,
       model_file |-> <<"net", "_", "full", "_", "train", ".", "model", ".", "prototxt">>,
       solver_file |-> <<"net", "_", "full", ".", "solver", ".", "prototxt">>],
      [output_dir |-> <<"/">>, data_file |-> <<"/", "part1", ".", "a", ".", "b">>,
       model_file |-> <<"part1">>,
       solver_file |-> <<"part1", ".", "prototxt">>] }

TestInvocations ==
    { [o |-> <<>>, b |-> <<>>, data_file |-> <<"d", "/", "all", ".", "types">>,
       model_file |-> <<"net", ".", "model", ".", "prototxt">>,
       weight_file |-> <<"w", "/", "net", "_", "full", "_", "iter", "_", "2", ".", "caffemodel">>] }

SolverPrototypes == [max_iter : 1..MaxIter, snapshot : 0..MaxIter]

\* the solvers of the cross-validation runs: two snapshots, one (the solver names
\* none), none (the first would come after the last iteration), one and a
\* final iteration past it
CrossvalSolvers ==
    { [max_iter |-> 2, snapshot |-> 1], [max_iter |-> 1, snapshot |-> 0],
      [max_iter |-> 1, snapshot |-> 2], [max_iter |-> 3, snapshot |-> 2] }

-----------------------------------------------------------------------------
(* State *)

\* the trainer processes running, the solver files invoked so far, the exit statuses
NoTrainer == [running |-> {}, invoked |-> <<>>, status |-> <<>>]

Idle == /\ crossval_files = Null /\ test_files = Null /\ trainer = NoTrainer
        /\ fold = 0 /\ snap = 0 /\ score_data = Null /\ net = Null
        /\ all_score_data = << <<>>, <<>> >> /\ plots = <<>> /\ parts = Null
        /\ err = "none"

\* main() called with the crossval task
InitCrossval ==
    \E inv \in CrossvalInvocations, sp \in CrossvalSolvers, found \in [0..K -> FoldData] :
        /\ task = "crossval" /\ pc = "generate"
        /\ args = [o |-> inv.o, b |-> inv.b, data_file |-> inv.data_file,
                   model_file |-> inv.model_file, solver_file |-> inv.solver_file]
        /\ disk = [f \in {CrossvalDataFile(inv.data_file, x, "test") : x \in 0..K} |->
                      DataFile(found[CHOOSE x \in 0..K :
                                        CrossvalDataFile(inv.data_file, x, "test") = f])]
                  @@ (inv.model_file :> ModelFile(inv.prototype))
                  @@ (inv.solver_file :>
                        [kind |-> "solver", max_iter |-> sp.max_iter,
                         snapshot |-> sp.snapshot, train_net |-> <<>>,
                         snapshot_prefix |-> <<>>])
        /\ Idle

\* main() called with the test task
InitTest ==
    \E inv \in TestInvocations, lines \in SeqsUpTo(ScoreRows, 1, MaxRows),
       names \in {<<"data", "ip", "pred", "loss">>}, batch_size \in 1..MaxBatch :
        /\ task = "test" /\ pc = "generate"
        /\ args = inv
        /\ disk = (inv.data_file :> DataFile(lines))
                  @@ (inv.model_file :> ModelFile(Prototype(names, batch_size)))
                  @@ (inv.weight_file :> [kind |-> "weights"])
        /\ Idle

\* write_k_fold_data(full_data_file, k)
InitKFold ==
    \E full_data_file \in {<<"d", "/", "all", ".", "types">>, <<"all">>},
       lines \in FullDataFiles, k \in 1..MaxK :
        /\ task = "kfold" /\ pc = "partition"
        /\ args = [full_data_file |-> full_data_file, k |-> k]
        /\ disk = (full_data_file :> DataFile(lines))
        /\ Idle

\* write_model_prototxt(model_file, model_prototype, data_file, binmap_root, mode)
InitPrototxt ==
    \E names \in SeqsUpTo(LayerNames, 1, MaxLayers), mode \in {"train", "test"} :
        /\ task = "prototxt" /\ pc = "write"
        /\ args = [model_file |-> <<"net", "_", mode, ".", "model", ".", "prototxt">>,
                   names |-> names,
                   model_prototype |-> Prototype(names, 1),
                   data_file |-> <<"d", "/", "all", ".", "types">>,
                   binmap_root |-> DEFAULT_BINMAP_ROOT, mode |-> mode]
        /\ disk = <<>>
        /\ Idle

\* generate_crossval_files(..., k, write=False)
InitGenerate ==
    \E inv \in GenerateInvocations, sp \in SolverPrototypes, k \in 1..MaxK :
        /\ task = "generate" /\ pc = "generate"
        /\ args = [output_dir |-> inv.output_dir, data_file |-> inv.data_file,
                   model_file |-> inv.model_file, solver_file |-> inv.solver_file,
                   k |-> k]
        /\ disk = (inv.model_file :> ModelFile(Prototype(<<"data", "pred", "loss">>, 1)))
                  @@ (inv.solver_file :>
                        [kind |-> "solver", max_iter |-> sp.max_iter,
                         snapshot |-> sp.snapshot, train_net |-> <<>>,
                         snapshot_prefix |-> <<>>])
        /\ Idle

Init == InitCrossval \/ InitTest \/ InitKFold \/ InitPrototxt \/ InitGenerate

OnDisk(f) == f \in DOMAIN disk

\* the file system after writing content to path f
Written(d, f, content) == [g \in (DOMAIN d) \cup {f} |-> IF g = f THEN content ELSE d[g]]

read_model_prototxt(f) == disk[f].layers

read_solver_prototxt(f) == disk[f]

-----------------------------------------------------------------------------
(* The crossval task *)

\* the three configuration files generate_crossval_files writes for folds i..k,
\* in the order it writes them; st carries the file system and the prototype
RECURSIVE WriteConfigs(_, _, _, _, _)
WriteConfigs(st, cf, binmap_root, solver_prototype, i) ==
    IF i > Len(cf.solvers) THEN st
    ELSE LET train == write_model_prototxt(st.prototype, cf.train_data[i],
                                           binmap_root, "train")
             test == write_model_prototxt(train.prototype, cf.test_data[i],
                                          binmap_root, "test")
             d1 == Written(st.disk, cf.train_models[i], ModelFile(train.written))
             d2 == Written(d1, cf.test_models[i], ModelFile(test.written))
             d3 == Written(d2, cf.solvers[i],
                           write_solver_prototxt(solver_prototype, cf.train_models[i]))
         IN WriteConfigs([disk |-> d3, prototype |-> test.prototype], cf, binmap_root,
                         solver_prototype, i + 1)

\* crossval_model: generate_crossval_files(..., k, write=True)
Generate ==
    /\ task = "crossval" /\ pc = "generate"
    /\ LET output_dir == Or(args.o, DEFAULT_OUTPUT_DIR)
           binmap_root == Or(args.b, DEFAULT_BINMAP_ROOT)
           solver_prototype == read_solver_prototxt(args.solver_file)
           cf == generate_crossval_files(output_dir, args.data_file, args.model_file,
                                         args.solver_file, solver_prototype, K)
           st == WriteConfigs([disk |-> disk,
                               prototype |-> read_model_prototxt(args.model_file)],
                              cf, binmap_root, solver_prototype, 1)
       IN /\ crossval_files' = cf
          /\ disk' = st.disk
    /\ pc' = "train" /\ fold' = 0
    /\ UNCHANGED <<task, args, test_files, trainer, snap, score_data, net,
                   all_score_data, plots, parts, err>>

\* os.system('caffe train -solver ...'): the call starts the trainer and blocks
TrainStart ==
    /\ task = "crossval" /\ pc = "train"
    /\ trainer' = [trainer EXCEPT
                      !.running = @ \cup {crossval_files.solvers[fold + 1]},
                      !.invoked = Append(@, crossval_files.solvers[fold + 1])]
    /\ pc' = "training"
    /\ UNCHANGED <<task, args, disk, crossval_files, test_files, fold, snap,
                   score_data, net, all_score_data, plots, parts, err>>

\* the iterations the trainer leaves a snapshot of: every multiple of snapshot,
\* and the last iteration
TrainerSnapshots(solver) ==
    {solver.max_iter} \cup
    {j \in 1..solver.max_iter : solver.snapshot > 0 /\ j % solver.snapshot = 0}

TrainerOutput(d, solver, status) ==
    IF status # 0 THEN d
    ELSE LET out == {solver.snapshot_prefix \o <<"_">> \o IterParam(j)
                        \o <<".", "caffemodel">> : j \in TrainerSnapshots(solver)}
         IN [g \in (DOMAIN d) \cup out |-> IF g \in out THEN [kind |-> "weights"] ELSE d[g]]

\* a loop over range(k) in place of range(k+1)
AfterTrainRangeK(i) == IF i + 1 >= K THEN "trained" ELSE "train"

\* where the loop over the solvers goes once invocation i has returned
AfterTrain(i) == IF i + 1 > K THEN "trained" ELSE "train"

\* the trainer exits, with any status, and os.system returns; the status is dropped
TrainReturn ==
    /\ task = "crossval" /\ pc = "training"
    /\ \E status \in {0, 1} :
          /\ trainer' = [trainer EXCEPT
                            !.running = @ \ {crossval_files.solvers[fold + 1]},
                            !.status = Append(@, status)]
          /\ disk' = TrainerOutput(disk, disk[crossval_files.solvers[fold + 1]], status)
    /\ pc' = AfterTrain(fold)
    /\ fold' = fold + 1
    /\ UNCHANGED <<task, args, crossval_files, test_files, snap, score_data, net,
                   all_score_data, plots, parts, err>>

\* the (fold, snapshot) the nested loops reach from (i, j), both 0-based, or
\* the end of the loops
RECURSIVE LoopPosition(_, _, _)
LoopPosition(cf, i, j) ==
    IF i > K THEN [pc |-> "plot", fold |-> i, snap |-> 0]
    ELSE IF j < Len(cf.weights[i + 1]) THEN [pc |-> "predict", fold |-> i, snap |-> j]
    ELSE LoopPosition(cf, i + 1, 0)

\* caffe.set_device, caffe.set_mode_gpu, and the entry into the loops
EnterLoops ==
    /\ task = "crossval" /\ pc = "trained"
    /\ LET to == LoopPosition(crossval_files, 0, 0)
       IN pc' = to.pc /\ fold' = to.fold /\ snap' = to.snap
    /\ UNCHANGED <<task, args, disk, crossval_files, test_files, trainer, score_data,
                   net, all_score_data, plots, parts, err>>

\* get_model_predictions(model_file, weight_file, data_file) called from the
\* state pc = "predict": it returns (pc "write") or raises (pc "error")
Predicts(model_file, weight_file, data_file) ==
    IF ~ OnDisk(weight_file)
    THEN /\ pc' = "error" /\ err' = "IOError"
         /\ UNCHANGED <<score_data, net>>
    ELSE LET net_lines == disk[disk[model_file].layers[1].source].lines
         IN \E order \in Perms(Len(net_lines)) :
              LET r == get_model_predictions(disk[data_file].lines, disk[model_file],
                                             weight_file, net_lines, order)
              IN /\ net' = [forwards |-> r.forwards, checked |-> r.checked,
                            order |-> order]
                 /\ IF r.raised
                    THEN pc' = "error" /\ err' = "IndexError" /\ score_data' = score_data
                    ELSE pc' = "write" /\ err' = err /\ score_data' = r.data

Predict ==
    /\ task = "crossval" /\ pc = "predict"
    /\ Predicts(crossval_files.test_models[fold + 1],
                crossval_files.weights[fold + 1][snap + 1],
                crossval_files.test_data[fold + 1])
    /\ UNCHANGED <<task, args, disk, crossval_files, test_files, trainer, fold, snap,
                   all_score_data, plots, parts>>

\* the step without the write
WriteScoresSkipped ==
    /\ task = "crossval" /\ pc = "write"
    /\ pc' = "aggregate"
    /\ UNCHANGED <<task, args, disk, crossval_files, test_files, trainer, fold, snap,
                   score_data, net, all_score_data, plots, parts, err>>

WriteScores ==
    /\ task = "crossval" /\ pc = "write"
    /\ disk' = Written(disk, crossval_files.scores[fold + 1][snap + 1],
                       write_scores_to_file(score_data))
    /\ pc' = "aggregate"
    /\ UNCHANGED <<task, args, crossval_files, test_files, trainer, fold, snap,
                   score_data, net, all_score_data, plots, parts, err>>

\* os.path.basename(score_file)[:-7].replace(old, new)
SeriesName(score_file, old, new) ==
    LET base == os_path_basename(score_file)
    IN StrReplace(SubSeq(base, 1, Len(base) - 2), old, new)

Named(data, name) ==
    [labels |-> data.labels, targets |-> data.targets, examples |-> data.examples,
     scores |-> data.scores, name |-> name]

Extended(series, data) ==
    [series EXCEPT !.labels = @ \o data.labels, !.targets = @ \o data.targets,
                   !.examples = @ \o data.examples, !.scores = @ \o data.scores]

\* the later folds added to the last series, whatever the snapshot
AggregatedToLast(all, data, score_file, i, j) ==
    IF i = 0
    THEN <<Append(all[1], Named(data, SeriesName(score_file, "full", "testontrain"))),
           all[2]>>
    ELSE IF i = 1
    THEN <<all[1],
           Append(all[2], Named(data, SeriesName(score_file, "part1", "crossval")))>>
    ELSE <<all[1], [all[2] EXCEPT ![Len(all[2])] = Extended(@, data)]>>

\* all_score_data after the result of fold i, snapshot j (0-based) is added
Aggregated(all, data, score_file, i, j) ==
    IF i = 0
    THEN <<Append(all[1], Named(data, SeriesName(score_file, "full", "testontrain"))),
           all[2]>>
    ELSE IF i = 1
    THEN <<all[1],
           Append(all[2], Named(data, SeriesName(score_file, "part1", "crossval")))>>
    ELSE <<all[1], [all[2] EXCEPT ![j + 1] = Extended(@, data)]>>

Aggregate ==
    /\ task = "crossval" /\ pc = "aggregate"
    /\ all_score_data' = Aggregated(all_score_data, score_data,
                                    crossval_files.scores[fold + 1][snap + 1], fold, snap)
    /\ LET to == LoopPosition(crossval_files, fold, snap + 1)
       IN pc' = to.pc /\ fold' = to.fold /\ snap' = to.snap
    /\ UNCHANGED <<task, args, disk, crossval_files, test_files, trainer, score_data,
                   net, plots, parts, err>>

\* the calls of plot_roc_curves that end crossval_model, in their order
RocPlots(cf, all) ==
    LET by_iter_score_data == transpose(all)
    IN <<[file |-> cf.roc_plots.testontrain, plot_data |-> all[1]],
         [file |-> cf.roc_plots.crossval, plot_data |-> all[2]]>>
       \o [m \in DOMAIN cf.roc_plots.by_iter |->
             [file |-> cf.roc_plots.by_iter[m], plot_data |-> by_iter_score_data[m]]]

Plot ==
    /\ task = "crossval" /\ pc = "plot"
    /\ plots' = RocPlots(crossval_files, all_score_data)
    /\ pc' = "done"
    /\ UNCHANGED <<task, args, disk, crossval_files, test_files, trainer, fold, snap,
                   score_data, net, all_score_data, parts, err>>

-----------------------------------------------------------------------------
(* The test task *)

generate_test_files(output_dir, test_data_file, model_prototype_file, weight_file) ==
    LET data_param == os_path_splitext(os_path_basename(test_data_file))[1]
        model_param == SplitDotFirst(os_path_basename(model_prototype_file))
        weight_param == os_path_splitext(os_path_basename(weight_file))[1]
    IN [test_data |-> test_data_file,
        test_model |-> os_path_join(output_dir,
                          UnderscoreJoin(<<model_param, data_param>>)
                              \o <<".", "model", ".", "prototxt">>),
        score |-> os_path_join(output_dir,
                     UnderscoreJoin(<<weight_param, data_param>>) \o <<".", "scores">>)]

\* test_model: generate_test_files(..., write=True)
TestGenerate ==
    /\ task = "test" /\ pc = "generate"
    /\ LET tf == generate_test_files(Or(args.o, DEFAULT_OUTPUT_DIR), args.data_file,
                                     args.model_file, args.weight_file)
           model == write_model_prototxt(read_model_prototxt(args.model_file),
                                         args.data_file,
                                         Or(args.b, DEFAULT_BINMAP_ROOT), "test")
       IN /\ test_files' = tf
          /\ disk' = Written(disk, tf.test_model, ModelFile(model.written))
    /\ pc' = "predict"
    /\ UNCHANGED <<task, args, crossval_files, trainer, fold, snap, score_data, net,
                   all_score_data, plots, parts, err>>

TestPredict ==
    /\ task = "test" /\ pc = "predict"
    /\ Predicts(test_files.test_model, args.weight_file, test_files.test_data)
    /\ UNCHANGED <<task, args, disk, crossval_files, test_files, trainer, fold, snap,
                   all_score_data, plots, parts>>

TestWriteScores ==
    /\ task = "test" /\ pc = "write"
    /\ disk' = Written(disk, test_files.score, write_scores_to_file(score_data))
    /\ pc' = "done"
    /\ UNCHANGED <<task, args, crossval_files, test_files, trainer, fold, snap,
                   score_data, net, all_score_data, plots, parts, err>>

-----------------------------------------------------------------------------
(* write_k_fold_data *)

FullData ==
    read_data_to_target_dict(disk[args.full_data_file].lines, <<"int", "str", "str">>, 1)

\* parts = k_fold_partitions(full_data, k)
KFoldPartition ==
    /\ task = "kfold" /\ pc = "partition"
    /\ \E targets \in Shuffles(DOMAIN FullData) :
          parts' = k_fold_partitions(targets, args.k)
    /\ pc' = "write" /\ fold' = 0
    /\ UNCHANGED <<task, args, disk, crossval_files, test_files, trainer, snap,
                   score_data, net, all_score_data, plots, err>>

\* every order np.random.shuffle can leave the lines in
ShuffledLines(lines) == {Permute(lines, f) : f \in Perms(Len(lines))}

\* the filter on the part left out
TrainTargetsAll(full_data, part) == SomeOrder(DOMAIN full_data)

\* train_targets = [t for t in full_data if t not in part]
TrainTargets(full_data, part) == SomeOrder((DOMAIN full_data) \ Range(part))

TestTargets(full_data, part) == part

\* one turn of the loop over the parts: the train and the test file of part fold+1
KFoldWrite ==
    /\ task = "kfold" /\ pc = "write" /\ fold < Len(parts)
    /\ LET part == parts[fold + 1]
           train_lines == TargetLines(FullData, TrainTargets(FullData, part))
           test_lines == TargetLines(FullData, TestTargets(FullData, part))
       IN \E train \in ShuffledLines(train_lines), test \in ShuffledLines(test_lines) :
             disk' = Written(Written(disk,
                                     KFoldDataFile(args.full_data_file, fold, "train"),
                                     DataFile(WrittenLines(train))),
                             KFoldDataFile(args.full_data_file, fold, "test"),
                             DataFile(WrittenLines(test)))
    /\ fold' = fold + 1
    /\ pc' = IF fold + 1 = Len(parts) THEN "done" ELSE "write"
    /\ UNCHANGED <<task, args, crossval_files, test_files, trainer, snap, score_data,
                   net, all_score_data, plots, parts, err>>

-----------------------------------------------------------------------------
(* write_model_prototxt and generate_crossval_files called on their own *)

WritePrototxt ==
    /\ task = "prototxt" /\ pc = "write"
    /\ LET model == write_model_prototxt(args.model_prototype, args.data_file,
                                         args.binmap_root, args.mode)
       IN /\ disk' = Written(disk, args.model_file, ModelFile(model.written))
          /\ args' = [args EXCEPT !.model_prototype = model.prototype]
    /\ pc' = "done"
    /\ UNCHANGED <<task, crossval_files, test_files, trainer, fold, snap, score_data,
                   net, all_score_data, plots, parts, err>>

GenerateNames ==
    /\ task = "generate" /\ pc = "generate"
    /\ crossval_files' =
          generate_crossval_files(args.output_dir, args.data_file, args.model_file,
                                  args.solver_file, read_solver_prototxt(args.solver_file),
                                  args.k)
    /\ pc' = "done"
    /\ UNCHANGED <<task, args, disk, test_files, trainer, fold, snap, score_data, net,
                   all_score_data, plots, parts, err>>

-----------------------------------------------------------------------------

Next ==
    \/ Generate \/ TrainStart \/ TrainReturn \/ EnterLoops \/ Predict \/ WriteScores
    \/ Aggregate \/ Plot
    \/ TestGenerate \/ TestPredict \/ TestWriteScores
    \/ KFoldPartition \/ KFoldWrite
    \/ WritePrototxt \/ GenerateNames

Spec == Init /\ [][Next]_vars

-----------------------------------------------------------------------------
(* What the properties talk about *)

Inferring == task \in {"crossval", "test"}

CurrentModelFile ==
    IF task = "crossval" THEN crossval_files.test_models[fold + 1]
    ELSE test_files.test_model

CurrentWeightFile ==
    IF task = "crossval" THEN crossval_files.weights[fold + 1][snap + 1]
    ELSE args.weight_file

CurrentDataFile ==
    IF task = "crossval" THEN crossval_files.test_data[fold + 1]
    ELSE test_files.test_data

CurrentScoreFile ==
    IF task = "crossval" THEN crossval_files.scores[fold + 1][snap + 1]
    ELSE test_files.score

\* the rows of the data file, and the rows the network's data layer reads
FileRows == disk[CurrentDataFile].lines

NetRows == disk[disk[CurrentModelFile].layers[1].source].lines

\* the example the network scores in forward pass (p-1) div b, slot (p-1) mod b
ScoredRow(order, p) == NetRows[order[((p - 1) % Len(NetRows)) + 1]]

-----------------------------------------------------------------------------
(* C1: in get_model_predictions, when at some data index the label of the data
   file differs from the label the network outputs for that slot, IndexError is
   raised and nothing is returned; crossval_model and test_model do not catch
   it: the score file of that snapshot is not written and no step follows. *)
C1_MismatchRaises ==
    [][ /\ pc # "error"
        /\ ( /\ Inferring /\ pc = "predict" /\ OnDisk(CurrentWeightFile)
             /\ \E p \in 1..Len(FileRows) :
                   FloatOf(PyInt(FileRows[p][1]))
                       # FloatOf(PyInt(ScoredRow(net'.order, p)[1])) )
           => /\ pc' = "error" /\ err' = "IndexError"
              /\ score_data' = score_data /\ all_score_data' = all_score_data
              /\ plots' = plots /\ disk' = disk
              /\ CurrentScoreFile \notin DOMAIN disk' ]_vars

\* a snapshot of a later fold of a cross-validation run fails the label check
C1_Witness ==
    /\ task = "crossval" /\ pc = "error" /\ err = "IndexError" /\ fold = 2 /\ snap = 1
    /\ all_score_data[2] # <<>>

-----------------------------------------------------------------------------
(* C2, as claimed: whenever the examples the network scores are not in the
   order of the rows of the data file, get_model_predictions raises; so when it
   returns, the score at position p belongs to the example of row p. *)
C2_OrderMismatchRaises ==
    (Inferring /\ pc = "write") =>
        \A p \in 1..Len(FileRows) :
            /\ ScoredRow(net.order, p) = FileRows[p]
            /\ score_data.scores[p]
                   = Pred(CurrentWeightFile, FileRows[p][2], FileRows[p][3])

(* C2, amended: only the labels are compared.  When get_model_predictions
   returns, the example scored at every position p has the label of row p of
   the data file, and the score at position p is the score of the example the
   network read at that position, which may be another row with that label. *)
C2_LabelOrderChecked ==
    (Inferring /\ pc = "write") =>
        \A p \in 1..Len(FileRows) :
            /\ PyInt(ScoredRow(net.order, p)[1]) = PyInt(FileRows[p][1])
            /\ score_data.labels[p] = PyInt(FileRows[p][1])
            /\ score_data.examples[p] = FileRows[p][3]
            /\ score_data.scores[p]
                   = Pred(CurrentWeightFile, ScoredRow(net.order, p)[2],
                          ScoredRow(net.order, p)[3])

\* scores are returned although the network read the rows in another order
C2_Witness ==
    /\ Inferring /\ pc = "write"
    /\ \E p \in 1..Len(FileRows) : ScoredRow(net.order, p)[3] # FileRows[p][3]

-----------------------------------------------------------------------------
(* The stages of a cross-validation run *)

ConfigFiles(cf) == Range(cf.train_models) \cup Range(cf.test_models) \cup Range(cf.solvers)

\* the (fold, snapshot) positions of the inference loops, 0-based
Positions(cf) == {a \in (0..K) \X (0..8) : a[2] < Len(cf.weights[a[1] + 1])}

Before(a, b) == a[1] < b[1] \/ (a[1] = b[1] /\ a[2] < b[2])

ScoreFileAt(cf, a) == cf.scores[a[1] + 1][a[2] + 1]

Training == pc \in {"train", "training"}

PastTraining == pc \in {"trained", "predict", "write", "aggregate", "plot", "done", "error"}

InLoops == pc \in {"predict", "write", "aggregate", "error"}

(* C3: the crossval task is a pipeline of ordered stages.  All k+1 sets of
   train-model, test-model and solver files are written before the first
   trainer invocation; all k+1 invocations have returned before the first
   weights are loaded; the score file of each (fold, snapshot) is written right
   after its inference and before the next one; no ROC plot is made until
   every score file of every fold and snapshot is written. *)
C3_StageState ==
    task = "crossval" =>
        /\ pc = "generate" =>
              /\ trainer = NoTrainer /\ net = Null /\ plots = <<>>
              /\ \A f \in DOMAIN disk : disk[f].kind # "scores"
        /\ (Training \/ PastTraining) =>
              /\ \A f \in ConfigFiles(crossval_files) : OnDisk(f)
              /\ Len(crossval_files.solvers) = K + 1
        /\ (PastTraining \/ net # Null) =>
              /\ Len(trainer.status) = K + 1
              /\ trainer.running = {}
        /\ (Training \/ pc = "trained") =>
              /\ net = Null /\ plots = <<>>
              /\ \A a \in Positions(crossval_files) :
                    ~ OnDisk(ScoreFileAt(crossval_files, a))
        /\ InLoops =>
              /\ plots = <<>>
              /\ \A a \in Positions(crossval_files) :
                    OnDisk(ScoreFileAt(crossval_files, a)) <=>
                        \/ Before(a, <<fold, snap>>)
                        \/ pc = "aggregate" /\ a = <<fold, snap>>
        /\ (pc \in {"plot", "done"} \/ plots # <<>>) =>
              \A a \in Positions(crossval_files) : OnDisk(ScoreFileAt(crossval_files, a))

C3_StageStep ==
    task = "crossval" =>
        /\ (pc = "predict" /\ pc' = "write") =>
              /\ ~ OnDisk(CurrentScoreFile) /\ disk' = disk
        /\ pc = "write" =>
              /\ disk' = Written(disk, CurrentScoreFile, write_scores_to_file(score_data))
              /\ net' = net /\ pc' = "aggregate"
        /\ pc = "aggregate" => disk' = disk /\ net' = net

C3_Pipeline == [] C3_StageState /\ [][C3_StageStep]_vars

\* a run that trained, scored two snapshots of every fold and drew its plots
C3_Witness ==
    /\ task = "crossval" /\ pc = "done" /\ Len(plots) = 4
    /\ Cardinality(Positions(crossval_files)) = 2 * (K + 1)

(* C4: trainer invocations are strictly sequential.  At most one trainer
   process runs at any time; the trainer is invoked k+1 = 4 times, once per
   generated solver file in increasing index order; invocation i+1 starts only
   after invocation i has returned, whatever its exit status. *)
C4_SequentialTrainer ==
    task = "crossval" =>
        /\ Cardinality(trainer.running) <= 1
        /\ Len(trainer.invoked) <= 4
        /\ pc # "generate" =>
              /\ trainer.invoked = SubSeq(crossval_files.solvers, 1, Len(trainer.invoked))
              /\ \A x, y \in DOMAIN trainer.invoked :
                    trainer.invoked[x] = trainer.invoked[y] => x = y
        /\ pc = "training" =>
              /\ Len(trainer.invoked) = Len(trainer.status) + 1
              /\ trainer.running = {trainer.invoked[Len(trainer.invoked)]}
        /\ pc # "training" =>
              /\ Len(trainer.invoked) = Len(trainer.status)
              /\ trainer.running = {}
        /\ Training => Len(trainer.status) = fold
        /\ PastTraining => Len(trainer.invoked) = 4 /\ K + 1 = 4

\* all four invocations made, the first and the third having failed
C4_Witness ==
    /\ task = "crossval" /\ pc = "trained"
    /\ trainer.status = <<1, 0, 1, 0>>

-----------------------------------------------------------------------------
(* Partitions and the files of the folds *)

FullLines == disk[args.full_data_file].lines

\* the targets named in the lines of a data file
TargetsOf(lines) == {lines[x][2] : x \in {y \in DOMAIN lines : Len(lines[y]) >= 2}}

\* the examples of a data file: its lines that are not blank, with their types
ExamplesOf(lines) ==
    apply_to_fields(SelectSeq(lines, LAMBDA l : l # <<>>), <<"int", "str", "str">>)

Abs(x) == IF x < 0 THEN -x ELSE x

(* C5: k_fold_partitions(data, k) returns exactly k parts for every k >= 1;
   the parts are pairwise disjoint, their union is the set of keys of data,
   and the sizes of any two parts differ by at most 1. *)
C5_BalancedPartition ==
    (task = "kfold" /\ pc # "partition") =>
        /\ Len(parts) = args.k
        /\ \A q \in DOMAIN parts : Cardinality(Range(parts[q])) = Len(parts[q])
        /\ \A q, r \in DOMAIN parts : q # r => Range(parts[q]) \cap Range(parts[r]) = {}
        /\ UNION {Range(parts[q]) : q \in DOMAIN parts} = TargetsOf(FullLines)
        /\ \A q, r \in DOMAIN parts : Abs(Len(parts[q]) - Len(parts[r])) <= 1

\* three targets in two parts
C5_Witness ==
    /\ task = "kfold" /\ pc # "partition"
    /\ Len(parts) = 2 /\ Len(parts[1]) = 2 /\ Len(parts[2]) = 1

TrainLinesOf(p) == disk[CrossvalDataFile(args.full_data_file, p, "train")].lines

TestLinesOf(p) == disk[CrossvalDataFile(args.full_data_file, p, "test")].lines

(* C8: write_k_fold_data never leaks a target between train and test.  For
   every fold p the targets of the part-p train file and of the part-p test
   file are disjoint and together are all targets; every target is in the test
   file of exactly one fold and in the train files of the other k-1; every
   example row of the full data is exactly once in exactly one of the two files
   of each fold; the files are at the paths generate_crossval_files records as
   train_data[p] and test_data[p]. *)
C8_NoTargetLeak ==
    (task = "kfold" /\ pc \in {"write", "done"}) =>
        LET all == TargetsOf(FullLines)
            full == ExamplesOf(FullLines)
            train == [p \in 1..fold |-> TrainLinesOf(p)]
            test == [p \in 1..fold |-> TestLinesOf(p)]
        IN  /\ DOMAIN disk = {args.full_data_file}
                  \cup {CrossvalDataFile(args.full_data_file, p, "train") : p \in 1..fold}
                  \cup {CrossvalDataFile(args.full_data_file, p, "test") : p \in 1..fold}
            /\ \A p \in 1..fold :
                  LET train_examples == ExamplesOf(train[p])
                      test_examples == ExamplesOf(test[p])
                  IN  /\ TargetsOf(train[p]) \cap TargetsOf(test[p]) = {}
                      /\ TargetsOf(train[p]) \cup TargetsOf(test[p]) = all
                      /\ Len(train_examples) + Len(test_examples) = Len(FullLines)
                      /\ \A e \in Range(full) :
                            /\ Count(full, e)
                                  = Count(train_examples, e) + Count(test_examples, e)
                            /\ Count(train_examples, e) = 0
                                  \/ Count(test_examples, e) = 0
            /\ pc = "done" =>
                  /\ fold = args.k
                  /\ \A t \in all :
                        /\ Cardinality({p \in 1..fold : t \in TargetsOf(test[p])}) = 1
                        /\ Cardinality({p \in 1..fold : t \in TargetsOf(train[p])})
                              = args.k - 1

\* three targets written as two folds, two of them in the first test file
C8_Witness ==
    /\ task = "kfold" /\ pc = "done" /\ args.k = 2
    /\ Cardinality(TargetsOf(FullLines)) = 3
    /\ Cardinality(TargetsOf(TestLinesOf(1))) = 2
    /\ Cardinality(TargetsOf(TrainLinesOf(1))) = 1

-----------------------------------------------------------------------------
(* The file names of a cross-validation run *)

FoldsOf(cf) == DOMAIN cf.weights

\* the iteration in the name of a snapshot file, n tokens before its end
IterationAt(path, n) ==
    IF Len(path) >= n + 2 /\ path[Len(path) - n - 2] = "iter" /\ path[Len(path) - n - 1] = "_"
    THEN path[Len(path) - n] ELSE "?"

OtherFiles(cf) ==
    ConfigFiles(cf) \cup Range(cf.roc_plots.by_iter)
        \cup {cf.roc_plots.testontrain, cf.roc_plots.crossval, cf.line_plot}

(* C6: the file names generate_crossval_files returns.  The lists train_data,
   test_data, train_models, test_models, solvers, weights and scores have k+1
   entries each; for every fold, weights and scores are as long as the list of
   per-iteration plots and entry j of each names the same snapshot iteration;
   distinct (fold, iteration) pairs have distinct weight files and distinct
   score files, none of them the path of a model, a solver or a plot. *)
C6_FileNames ==
    (task \in {"generate", "crossval"} /\ crossval_files # Null) =>
        LET cf == crossval_files
            k == IF task = "generate" THEN args.k ELSE K
            snapshots == {<<f, m>> : f \in FoldsOf(cf), m \in DOMAIN cf.roc_plots.by_iter}
            others == OtherFiles(cf)
        IN /\ \A list \in {cf.train_data, cf.test_data, cf.train_models, cf.test_models,
                           cf.solvers, cf.weights, cf.scores} : Len(list) = k + 1
           /\ \A f \in FoldsOf(cf) :
                 /\ Len(cf.weights[f]) = Len(cf.roc_plots.by_iter)
                 /\ Len(cf.scores[f]) = Len(cf.roc_plots.by_iter)
           /\ \A a \in snapshots :
                 /\ IterationAt(cf.roc_plots.by_iter[a[2]], 4) # "?"
                 /\ IterationAt(cf.weights[a[1]][a[2]], 2)
                       = IterationAt(cf.roc_plots.by_iter[a[2]], 4)
                 /\ IterationAt(cf.scores[a[1]][a[2]], 2)
                       = IterationAt(cf.roc_plots.by_iter[a[2]], 4)
                 /\ cf.weights[a[1]][a[2]] \notin others
                 /\ cf.scores[a[1]][a[2]] \notin others
           /\ \A a, b \in snapshots :
                 /\ cf.weights[a[1]][a[2]] # cf.scores[b[1]][b[2]]
                 /\ a # b =>
                       /\ cf.weights[a[1]][a[2]] # cf.weights[b[1]][b[2]]
                       /\ cf.scores[a[1]][a[2]] # cf.scores[b[1]][b[2]]
                 /\ a[2] # b[2] =>
                       IterationAt(cf.weights[a[1]][a[2]], 2)
                           # IterationAt(cf.weights[b[1]][b[2]], 2)

\* names for a k other than 3 and two snapshots
C6_Witness ==
    /\ task = "generate" /\ pc = "done" /\ args.k = 2
    /\ Len(crossval_files.weights) = 3
    /\ Len(crossval_files.roc_plots.by_iter) = 2

-----------------------------------------------------------------------------
(* Labels *)

Binary(label) == label \in {0, 1}

\* the labels of the rows of a data or score file, as integers
LabelsOf(lines) == [x \in DOMAIN lines |-> PyInt(lines[x][1])]

ScoreFilesOnDisk == {f \in DOMAIN disk : disk[f].kind = "scores"}

SeriesOf(all) == Range(all[1]) \cup Range(all[2])

(* C7, as claimed: label is binary.  Every label of a labelled example read
   from a data file, every label of a score record written by
   write_scores_to_file and every label accumulated into a ROC series is 0 or 1. *)
C7_LabelBinary ==
    Inferring =>
        /\ score_data # Null => \A x \in DOMAIN score_data.labels : Binary(score_data.labels[x])
        /\ \A f \in ScoreFilesOnDisk :
              \A x \in DOMAIN disk[f].lines : Binary(PyInt(disk[f].lines[x][1]))
        /\ \A series \in SeriesOf(all_score_data) :
              \A x \in DOMAIN series.labels : Binary(series.labels[x])

\* the data file a score file on disk was computed from
DataFileOf(score_file) ==
    IF task = "test" THEN test_files.test_data
    ELSE crossval_files.test_data[
            CHOOSE f \in FoldsOf(crossval_files) :
                score_file \in Range(crossval_files.scores[f])]

(* C7, amended: labels are integers, read with int() and never checked to be
   0 or 1.  The labels get_model_predictions returns are the integer labels of
   the rows of the data file, the label of every score record written is the
   label of the same row of the data file, and every label of a ROC series is
   the label of a row of a test data file: the labels are binary exactly when
   those of the data files are. *)
C7_LabelsAsRead ==
    Inferring =>
        /\ pc \in {"write", "aggregate"} => score_data.labels = LabelsOf(FileRows)
        /\ \A f \in ScoreFilesOnDisk :
              /\ Len(disk[f].lines) = Len(disk[DataFileOf(f)].lines)
              /\ \A x \in DOMAIN disk[f].lines :
                    disk[f].lines[x][1] = str(PyInt(disk[DataFileOf(f)].lines[x][1]))
        /\ \A series \in SeriesOf(all_score_data) :
              \A x \in DOMAIN series.labels :
                 \E f \in Range(crossval_files.test_data) :
                    series.labels[x] \in Range(LabelsOf(disk[f].lines))

\* a score record with label 2 is written, after one with label 0
C7_Witness ==
    /\ task = "test" /\ pc = "done"
    /\ LabelsOf(disk[test_files.score].lines) = <<0, 2>>

-----------------------------------------------------------------------------
(* Aggregation *)

\* the four columns of a score file
ResultOf(score_file) ==
    LET lines == disk[score_file].lines
    IN [labels |-> LabelsOf(lines),
        targets |-> [x \in DOMAIN lines |-> lines[x][2]],
        examples |-> [x \in DOMAIN lines |-> lines[x][3]],
        scores |-> [x \in DOMAIN lines |-> lines[x][4]]]

Columns(series) ==
    [labels |-> series.labels, targets |-> series.targets,
     examples |-> series.examples, scores |-> series.scores]

\* the result of fold i, snapshot m (both 1-based) has been added to the lists
Added(i, m) ==
    \/ pc \in {"plot", "done"}
    \/ InLoops /\ Before(<<i - 1, m - 1>>, <<fold, snap>>)

\* the results of the folds 2..K+1 added so far for snapshot m, one after the other
CrossvalResults(m) ==
    LET res(i) == IF Added(i, m) THEN ResultOf(crossval_files.scores[i][m])
                  ELSE [labels |-> <<>>, targets |-> <<>>, examples |-> <<>>,
                        scores |-> <<>>]
    IN [labels |-> Concat([i \in 1..K |-> res(i + 1).labels]),
        targets |-> Concat([i \in 1..K |-> res(i + 1).targets]),
        examples |-> Concat([i \in 1..K |-> res(i + 1).examples]),
        scores |-> Concat([i \in 1..K |-> res(i + 1).scores])]

(* C9: score aggregation in crossval_model.  The test-on-train list holds one
   series per snapshot, built from fold 0 only; the cross-validation list holds
   one series per snapshot, whose labels, targets, examples and scores are
   those of the results of folds 1..k for that snapshot, in fold order; at
   every point of the loop the four lists of a series have the same length and
   position p of each is the same example; each per-iteration ROC plot gets
   two series, the test-on-train and the cross-validation series of its
   snapshot. *)
C9_Aggregation ==
    (task = "crossval" /\ (InLoops \/ pc \in {"plot", "done"})) =>
        LET cf == crossval_files
            all == all_score_data
            snapshots == DOMAIN cf.roc_plots.by_iter
        IN /\ \A series \in SeriesOf(all) :
                 /\ Len(series.labels) = Len(series.targets)
                 /\ Len(series.labels) = Len(series.examples)
                 /\ Len(series.labels) = Len(series.scores)
           /\ DOMAIN all[1] = {m \in snapshots : Added(1, m)}
           /\ DOMAIN all[2] = {m \in snapshots : Added(2, m)}
           /\ \A m \in DOMAIN all[1] : Columns(all[1][m]) = ResultOf(cf.scores[1][m])
           /\ \A m \in DOMAIN all[2] : Columns(all[2][m]) = CrossvalResults(m)
           /\ pc = "done" =>
                 /\ Len(plots) = 2 + Len(cf.roc_plots.by_iter)
                 /\ plots[1] = [file |-> cf.roc_plots.testontrain, plot_data |-> all[1]]
                 /\ plots[2] = [file |-> cf.roc_plots.crossval, plot_data |-> all[2]]
                 /\ \A m \in snapshots :
                       plots[2 + m] = [file |-> cf.roc_plots.by_iter[m],
                                       plot_data |-> <<all[1][m], all[2][m]>>]

\* two snapshots of four folds of two examples each, aggregated and plotted
C9_Witness ==
    /\ task = "crossval" /\ pc = "done"
    /\ Len(all_score_data[1]) = 2 /\ Len(all_score_data[2]) = 2
    /\ Len(all_score_data[1][2].labels) = 2
    /\ Len(all_score_data[2][2].labels) = 6
    /\ all_score_data[2][1].scores # all_score_data[2][2].scores

-----------------------------------------------------------------------------
(* C10: write_model_prototxt, for every prototype of at least one layer and
   any sequence of layer names.  In mode 'train' the written model has no
   layer named 'pred', in mode 'test' none named 'loss'; every other layer is
   kept, in its order; the first layer's source and root folder are the data
   file and the binmap root (and shuffle and balanced are false in test mode);
   the prototype passed in is left as it was. *)
C10_PrototxtLayers ==
    (task = "prototxt" /\ pc = "done") =>
        LET written == disk[args.model_file].layers
            dropped == IF args.mode = "train" THEN "pred" ELSE "loss"
            kept == SelectSeq(args.names, LAMBDA name : name # dropped)
        IN /\ \A x \in DOMAIN written : written[x].name # dropped
           /\ [x \in DOMAIN written |-> written[x].name] = kept
           /\ (args.names[1] # dropped) =>
                 /\ written[1].source = args.data_file
                 /\ written[1].root_folder = args.binmap_root
                 /\ args.mode = "test" => ~ written[1].shuffle /\ ~ written[1].balanced
           /\ args.model_prototype = Prototype(args.names, 1)

-----------------------------------------------------------------------------
(* The batches of an inference *)

\* the batch size of the network: the first dimension of its data blob
BatchSize == disk[CurrentModelFile].layers[1].batch_size

\* the class-1 prediction in slot j of the output of forward pass i (0-based)
ForwardPred(i, j) ==
    LET row == ScoredRow(net.order, i * BatchSize + j + 1)
    IN Pred(CurrentWeightFile, row[2], row[3])

(* C11: when get_model_predictions returns, for n >= 1 examples and batch size
   b >= 1 (n a multiple of b and n < b included), 'scores' has exactly n
   entries, as many as 'labels', 'targets' and 'examples'; entry p is the
   prediction of forward pass p div b, slot p mod b; the data indices whose
   label was compared are exactly 0..n-1, so no output slot past the last
   example is compared or scored, and every pass a score comes from was made. *)
C11_ScoresPerExample ==
    (Inferring /\ pc = "write") =>
        LET n == Len(FileRows)
            b == BatchSize
        IN /\ n >= 1 /\ b >= 1
           /\ Len(score_data.scores) = n
           /\ Len(score_data.labels) = n
           /\ Len(score_data.targets) = n
           /\ Len(score_data.examples) = n
           /\ \A p \in 0..(n - 1) :
                 /\ score_data.scores[p + 1] = ForwardPred(p \div b, p % b)
                 /\ p \div b < net.forwards
           /\ net.checked = 0..(n - 1)

\* two examples scored by a network of batch size two: a second pass is made
\* and nothing of it is used
C11_Witness ==
    /\ Inferring /\ pc = "write"
    /\ Len(FileRows) = 2 /\ BatchSize = 2
    /\ net.forwards = 2 /\ Len(score_data.scores) = 2

====
